---- MODULE Spec2Model ----
(***************************************************************************)
(* Model of netmiko/channel.py: the three Channel backends (TelnetChannel, *)
(* SSHChannel, SerialChannel), their lifecycle (establish_connection,      *)
(* close, is_alive), their raw I/O (write_channel, read_buffer,            *)
(* read_channel) and the shared pattern read (read_channel_expect).        *)
(*                                                                         *)
(* Text is a sequence of characters drawn from Chars; the character "ESC"  *)
(* stands for one whole terminal control sequence.  An exception is a      *)
(* record [cls, msg]; a message is a sequence of parts, one part per       *)
(* literal segment or interpolated value of the f-string that builds it.   *)
(* Python attribute states: "None" (attribute holds None), "conn"/"client" *)
(* (attribute holds an object), "deleted"/"missing" (the instance has no   *)
(* such attribute, reading it raises AttributeError).                      *)
(***************************************************************************)
EXTENDS Integers, Sequences, FiniteSets, TLC

\* ---- bounds of the model
MaxData == 3        \* characters buffered by the transport plus accumulated by a read
MaxTime == 3        \* clock ticks (one tick = one loop_sleep_time quantum)
MaxTimeout == 1     \* largest timeout argument, in ticks

\* ---- program constants
MaxLog == 3
MAX_BUFFER == 65535

VARIABLES
    backend,          \* which concrete Channel class the instance is
    remote_conn,      \* self.remote_conn: "None" | "conn" | "deleted"
    remote_conn_pre,  \* self.remote_conn_pre (SSH only): "missing" | "client"
    transport,        \* transport resource opened by the latest establish_connection
                      \*   call: "none" | "open" | "closed"
    link,             \* peer side of the connected handle: "up" | "eof" | "broken" | "torn"
    inbuf,            \* data the transport holds ready for reading
    now,              \* time.time(), counted in ticks from the moment the running
                      \*   read_channel_expect call first read the clock
    pc,               \* position inside a running read_channel_expect or
                      \*   read_channel_timing, else "idle"
    ret,              \* how the latest completed call ended
    fault,            \* what the transport or collaborator underneath the latest call
                      \*   raised: [at, cls, msg], at = "-" when nothing was raised
    pattern,          \* read_channel_expect: pattern argument
    read_timeout,     \* read_channel_expect: deadline
    output,           \* read_channel_expect: accumulated (unstripped) buffer
    delay_factor,     \* read_channel_timing: delay_factor argument
    channel_data,     \* read_channel_timing: accumulated data
    drains,           \* read_channel_timing: what each read_channel() of the running call
                      \*   returned, in order
    session_log,      \* self.session_log: [attached, fin, record_writes]
    slog,             \* what session_log.write has been handed so far
    taken             \* text the read calls have taken from the transport so far

timing == <<delay_factor, channel_data, drains>>
logging == <<session_log, slog, taken>>

vars == <<backend, remote_conn, remote_conn_pre, transport, link, inbuf, now, pc,
          ret, fault, pattern, read_timeout, output, delay_factor, channel_data,
          drains, session_log, slog, taken>>

Backends == {"telnet", "ssh", "serial"}
\* what the device sends: a printable character, or a control sequence
Chars == {"a", "ESC"}
\* literal patterns, the empty one included
Patterns == {<<>>, <<"a">>, <<"a", "a">>}

\* ---- construction-time configuration
device_type == "cisco_ios"
host == "sw1.example.net"
port == "22"

\* ---- exceptions and results
NoExc == [cls |-> "-", msg |-> <<>>]
Exc(cls, text) == [cls |-> cls, msg |-> <<<<text>>>>]

NoFault == [at |-> "-", cls |-> "-", msg |-> <<>>]
Fault(at, e) == IF e.cls = "-" THEN NoFault ELSE [at |-> at, cls |-> e.cls, msg |-> e.msg]

NoRet == [op |-> "-", kind |-> "none", val |-> "-", text |-> <<>>, cls |-> "-", msg |-> <<>>]
Return(op, val, text) ==
    [op |-> op, kind |-> "return", val |-> val, text |-> text, cls |-> "-", msg |-> <<>>]
Raise(op, e) ==
    [op |-> op, kind |-> "raise", val |-> "-", text |-> <<>>, cls |-> e.cls, msg |-> e.msg]

\* `part in str(err)` / "the message contains part"
Contains(msg, part) == \E i \in 1..Len(msg) : msg[i] = part

\* isinstance(e, base) for the exception classes the except clauses name
IsInstance(cls, base) ==
    \/ cls = base
    \/ base = "socket.error" /\ cls \in {"socket.gaierror", "socket.timeout"}
    \/ base = "SSHException" /\ cls \in {"AuthenticationException", "BadHostKeyException"}

\* what paramiko's SSHClient.connect can raise
ConnectErrors ==
    { Exc("socket.error", "Connection refused"),
      Exc("socket.gaierror", "Name or service not known"),
      Exc("SSHException", "No existing session"),
      Exc("SSHException", "Error reading SSH protocol banner"),
      Exc("AuthenticationException", "Authentication failed.") }

\* session_log=None, the constructors' default
NoSessionLog == [attached |-> FALSE, fin |-> FALSE, record_writes |-> FALSE]

\* the session logs a channel can be constructed with
SessionLogs ==
    {NoSessionLog} \cup
    {[attached |-> TRUE, fin |-> f, record_writes |-> w] : f \in BOOLEAN, w \in BOOLEAN}

\* ---- utilities
strip_ansi_escape_codes(s) == SelectSeq(s, LAMBDA c : c # "ESC")

Min(a, b) == IF a < b THEN a ELSE b

\* a call other than the two timed reads begins: the locals of the last one are gone
ClearLocals ==
    /\ pattern' = <<>> /\ read_timeout' = 0 /\ output' = <<>> /\ now' = 0
    /\ delay_factor' = 0 /\ channel_data' = <<>> /\ drains' = <<>>

Init ==
    /\ backend \in Backends
    /\ remote_conn = "None"
    /\ remote_conn_pre = "missing"
    /\ transport = "none"
    /\ link = "up"
    /\ inbuf = <<>>
    /\ now = 0
    /\ pc = "idle"
    /\ ret = NoRet
    /\ fault = NoFault
    /\ pattern = <<>>
    /\ read_timeout = 0
    /\ output = <<>>
    /\ delay_factor = 0
    /\ channel_data = <<>>
    /\ drains = <<>>
    /\ session_log = NoSessionLog
    /\ slog = <<>>
    /\ taken = <<>>

\* ------------------------------------------------- log_reads, log_writes

\* SessionLog.write(data): the sink appends data
SessionLog_write(data) == slog \o data

\* log_reads applied outside ansi_strip: the sink gets the stripped text
log_reads_after_strip(data) ==
    /\ slog' = IF session_log.attached
               THEN SessionLog_write(strip_ansi_escape_codes(data)) ELSE slog
    /\ taken' = IF session_log.attached THEN taken \o data ELSE taken

\* log_reads, after the wrapped read has returned data:
\* if self.session_log: self.session_log.write(output)
log_reads(data) ==
    /\ slog' = IF session_log.attached THEN SessionLog_write(data) ELSE slog
    /\ taken' = IF session_log.attached THEN taken \o data ELSE taken

\* a read call that raised, or a read that is not wrapped: nothing is taken or logged
no_read == slog' = slog /\ taken' = taken

\* log_writes that looks at neither flag
log_writes_unconditional(out_data, raised) ==
    /\ slog' = IF ~raised /\ session_log.attached
               THEN SessionLog_write(out_data) ELSE slog
    /\ taken' = taken

\* log_writes, around the wrapped write: nothing when it raised, else
\* if self.session_log: if self.session_log.fin or self.session_log.record_writes: write
log_writes(out_data, raised) ==
    /\ slog' = IF ~raised /\ session_log.attached
                  /\ (session_log.fin \/ session_log.record_writes)
               THEN SessionLog_write(out_data) ELSE slog
    /\ taken' = taken

\* there is room within MaxLog for n more characters on top of what the device has
\* already sent
LogRoom(n) == session_log.attached => Len(slog) + Len(inbuf) + n <= MaxLog

\* ------------------------------------------------------------------ close

\* SSHChannel.close: try: remote_conn_pre.close()  finally: del remote_conn; del remote_conn_pre
SSHChannel_close_result(conn, pre, close_raises) ==
    LET tryExc == IF pre = "missing" THEN Exc("AttributeError", "remote_conn_pre")
                  ELSE IF close_raises THEN Exc("SSHException", "close race")
                  ELSE NoExc
        finallyExc == IF conn = "deleted" THEN Exc("AttributeError", "remote_conn")
                      ELSE IF pre = "missing" THEN Exc("AttributeError", "remote_conn_pre")
                      ELSE NoExc
    IN [ conn |-> "deleted",
         pre |-> IF conn = "deleted" THEN pre ELSE "missing",
         closed |-> pre # "missing" /\ ~close_raises,
         exc |-> IF finallyExc # NoExc THEN finallyExc ELSE tryExc ]

SSHChannel_close ==
    /\ backend = "ssh" /\ pc = "idle"
    /\ \E close_raises \in BOOLEAN :
         \* the transport's close can only race with a live session
         LET raises == close_raises /\ remote_conn = "conn" /\ remote_conn_pre # "missing"
             c == SSHChannel_close_result(remote_conn, remote_conn_pre, raises)
         IN /\ remote_conn' = c.conn
            /\ remote_conn_pre' = c.pre
            /\ transport' = IF c.closed /\ transport = "open" THEN "closed" ELSE transport
            /\ ret' = IF c.exc = NoExc THEN Return("close", "None", <<>>)
                      ELSE Raise("close", c.exc)
            /\ fault' = IF raises
                        THEN Fault("close", Exc("SSHException", "close race")) ELSE NoFault
    /\ ClearLocals
    /\ UNCHANGED <<backend, link, inbuf, pc>>
    /\ UNCHANGED logging

\* TelnetChannel.close: try/except Exception: pass/finally: remote_conn = None
TelnetChannel_close ==
    /\ backend = "telnet" /\ pc = "idle"
    /\ \E close_raises \in BOOLEAN :
         /\ transport' = IF remote_conn = "conn" /\ ~close_raises /\ transport = "open"
                         THEN "closed" ELSE transport
         /\ fault' = IF remote_conn = "conn" /\ close_raises
                     THEN Fault("close", Exc("OSError", "close race")) ELSE NoFault
    /\ remote_conn' = "None"
    /\ ret' = Return("close", "None", <<>>)
    /\ ClearLocals
    /\ UNCHANGED <<backend, remote_conn_pre, link, inbuf, pc>>
    /\ UNCHANGED logging

\* SerialChannel.close: try/finally: remote_conn = None (no except clause)
SerialChannel_close ==
    /\ backend = "serial" /\ pc = "idle"
    /\ \E close_raises \in BOOLEAN :
         LET raised == remote_conn = "conn" /\ close_raises
         IN /\ transport' = IF remote_conn = "conn" /\ ~close_raises /\ transport = "open"
                            THEN "closed" ELSE transport
            /\ ret' = IF raised THEN Raise("close", Exc("SerialException", "close race"))
                      ELSE Return("close", "None", <<>>)
            /\ fault' = IF raised THEN Fault("close", Exc("SerialException", "close race"))
                        ELSE NoFault
    /\ remote_conn' = "None"
    /\ ClearLocals
    /\ UNCHANGED <<backend, remote_conn_pre, link, inbuf, pc>>
    /\ UNCHANGED logging

\* ------------------------------------------------- establish_connection

\* TelnetChannel.establish_connection: remote_conn = telnetlib.Telnet(...); self.login()
TelnetChannel_establish_connection ==
    /\ backend = "telnet" /\ pc = "idle"
    /\ \E ctor_ok \in BOOLEAN, login_ok \in BOOLEAN :
         IF ~ctor_ok
         THEN \* the constructor raised: nothing was opened, nothing was assigned
              /\ ret' = Raise("establish_connection", Exc("socket.error", "Connection refused"))
              /\ fault' = Fault("connect", Exc("socket.error", "Connection refused"))
              /\ transport' = "none"
              /\ UNCHANGED <<remote_conn, link, inbuf>>
         ELSE /\ remote_conn' = "conn"
              /\ transport' = "open"
              /\ link' = "up"
              /\ inbuf' = <<>>
              /\ ret' = IF login_ok THEN Return("establish_connection", "None", <<>>)
                        ELSE Raise("establish_connection", Exc("LoginError", "login failed"))
              /\ fault' = IF login_ok THEN NoFault
                          ELSE Fault("login", Exc("LoginError", "login failed"))
    /\ ClearLocals
    /\ UNCHANGED <<backend, remote_conn_pre, pc>>
    /\ UNCHANGED logging

\* SerialChannel.establish_connection: remote_conn = serial.Serial(...); self.login() (a no-op)
SerialChannel_establish_connection ==
    /\ backend = "serial" /\ pc = "idle"
    /\ \E ctor_ok \in BOOLEAN :
         IF ~ctor_ok
         THEN /\ ret' = Raise("establish_connection", Exc("SerialException", "could not open port"))
              /\ fault' = Fault("connect", Exc("SerialException", "could not open port"))
              /\ transport' = "none"
              /\ UNCHANGED <<remote_conn, link, inbuf>>
         ELSE /\ remote_conn' = "conn"
              /\ transport' = "open"
              /\ link' = "up"
              /\ inbuf' = <<>>
              /\ ret' = Return("establish_connection", "None", <<>>)
              /\ fault' = NoFault
    /\ ClearLocals
    /\ UNCHANGED <<backend, remote_conn_pre, pc>>
    /\ UNCHANGED logging

\* the messages SSHChannel.establish_connection builds
TcpFailureMsg ==
    << <<"TCP connection to device failed.">>, <<"Device settings:">>,
       <<device_type>>, <<host>>, <<port>> >>
DnsFailureMsg_without_port ==
    << <<"DNS failure--the hostname you provided was not resolvable in DNS:">>,
       <<host>> >>
DnsFailureMsg ==
    << <<"DNS failure--the hostname you provided was not resolvable in DNS:">>,
       <<host>>, <<port>> >>
NoSessionMsg ==
    << <<"Paramiko: 'No existing session' error: try increasing 'conn_timeout' to 10 seconds or larger.">> >>
AuthFailureMsg(auth_err) ==
    << <<"Authentication to device failed.">>, <<"Device settings:">>,
       <<device_type>>, <<host>>, <<port>> >> \o auth_err.msg

\* which except clause of the try around connect() takes exception e: the first,
\* in source order, whose class e is an instance of
ConnectHandler(e) ==
    IF IsInstance(e.cls, "socket.error") THEN "socket.error"
    ELSE IF IsInstance(e.cls, "SSHException") THEN "SSHException"
    ELSE IF IsInstance(e.cls, "AuthenticationException") THEN "AuthenticationException"
    ELSE "unhandled"

\* what the handler raises once its self.close() has returned normally
ConnectTranslation(e) ==
    CASE ConnectHandler(e) = "socket.error" ->
           [ cls |-> "NetmikoTimeoutException",
             msg |-> IF Contains(e.msg, <<"Name or service not known">>)
                     THEN DnsFailureMsg ELSE TcpFailureMsg ]
      [] ConnectHandler(e) = "SSHException" ->
           IF Contains(e.msg, <<"No existing session">>)
           THEN [cls |-> "NetmikoTimeoutException", msg |-> NoSessionMsg]
           ELSE e
      [] ConnectHandler(e) = "AuthenticationException" ->
           [cls |-> "NetmikoAuthenticationException", msg |-> AuthFailureMsg(e)]
      [] OTHER -> e

\* SSHChannel.establish_connection.  conn_res is what connect() does (NoExc: it
\* succeeds), shell_ok whether invoke_shell succeeds.  The client closed by the
\* handler's self.close() was built by this call and has no session to race with.
SSHChannel_establish_connection ==
    /\ backend = "ssh" /\ pc = "idle"
    /\ \E conn_res \in {NoExc} \cup ConnectErrors, shell_ok \in BOOLEAN :
         /\ fault' = IF conn_res # NoExc THEN Fault("connect", conn_res)
                     ELSE IF ~shell_ok
                     THEN Fault("shell", Exc("SSHException", "Unable to open channel."))
                     ELSE NoFault
         /\ IF conn_res # NoExc
            THEN IF ConnectHandler(conn_res) = "unhandled"
                 THEN /\ remote_conn_pre' = "client"
                      /\ transport' = "none"
                      /\ ret' = Raise("establish_connection", conn_res)
                      /\ UNCHANGED <<remote_conn, link, inbuf>>
                 ELSE LET c == SSHChannel_close_result(remote_conn, "client", FALSE)
                      IN /\ remote_conn' = c.conn
                         /\ remote_conn_pre' = c.pre
                         /\ transport' = IF ConnectHandler(conn_res) = "socket.error" THEN "none"
                                         ELSE IF c.closed THEN "closed" ELSE "open"
                         /\ ret' = Raise("establish_connection",
                                         IF c.exc # NoExc THEN c.exc
                                         ELSE ConnectTranslation(conn_res))
                         /\ UNCHANGED <<link, inbuf>>
            ELSE /\ remote_conn_pre' = "client"
                 /\ transport' = "open"
                 /\ IF shell_ok
                    THEN /\ remote_conn' = "conn"
                         /\ link' = "up"
                         /\ inbuf' = <<>>
                         /\ ret' = Return("establish_connection", "None", <<>>)
                    ELSE /\ ret' = Raise("establish_connection",
                                         Exc("SSHException", "Unable to open channel."))
                         /\ UNCHANGED <<remote_conn, link, inbuf>>
    /\ ClearLocals
    /\ UNCHANGED <<backend, pc>>
    /\ UNCHANGED logging

\* ---------------------------------------------------------- write_channel

\* what the transport's send does on the connected handle
SendOutcome ==
    IF link = "broken"
    THEN IF backend = "serial" THEN Exc("SerialException", "write failed")
         ELSE Exc("socket.error", "Broken pipe")
    ELSE IF link = "torn" THEN Exc("AttributeError", "'NoneType' object has no attribute 'sendall'")
    ELSE NoExc

\* TelnetChannel.write_channel / SerialChannel.write_channel: no-op when remote_conn is None
\* SSHChannel.write_channel: the same test, which itself raises when the attribute is gone
write_channel_exc ==
    IF remote_conn = "deleted" THEN Exc("AttributeError", "remote_conn")
    ELSE IF remote_conn = "None" THEN NoExc
    ELSE SendOutcome

\* the text written: one command character
OutData == <<"w">>

write_channel ==
    /\ pc = "idle"
    /\ LogRoom(Len(OutData))
    /\ fault' = IF remote_conn = "conn" THEN Fault("send", SendOutcome) ELSE NoFault
    /\ ret' = IF write_channel_exc = NoExc THEN Return("write_channel", "None", <<>>)
              ELSE Raise("write_channel", write_channel_exc)
    /\ log_writes(OutData, write_channel_exc # NoExc)
    /\ ClearLocals
    /\ UNCHANGED <<backend, remote_conn, remote_conn_pre, transport, link, inbuf, pc>>
    /\ UNCHANGED session_log

\* --------------------------------------------------------------- is_alive

\* TelnetChannel.is_alive: only AttributeError is caught around the three sendall calls
TelnetChannel_is_alive ==
    /\ backend = "telnet" /\ pc = "idle"
    /\ fault' = IF remote_conn = "conn" THEN Fault("send", SendOutcome) ELSE NoFault
    /\ ret' = IF remote_conn = "None" THEN Return("is_alive", "False", <<>>)
              ELSE IF SendOutcome = NoExc THEN Return("is_alive", "True", <<>>)
              ELSE IF SendOutcome.cls = "AttributeError" THEN Return("is_alive", "False", <<>>)
              ELSE Raise("is_alive", SendOutcome)
    /\ ClearLocals
    /\ UNCHANGED <<backend, remote_conn, remote_conn_pre, transport, link, inbuf, pc>>
    /\ UNCHANGED logging

\* SSHChannel.is_alive: write_channel(null) then transport.is_active(); socket.error
\* and EOFError are caught
SSHChannel_is_alive ==
    /\ backend = "ssh" /\ pc = "idle"
    /\ LogRoom(1)
    /\ fault' = IF remote_conn = "conn" THEN Fault("send", SendOutcome) ELSE NoFault
    /\ ret' = IF remote_conn = "deleted"
              THEN Raise("is_alive", Exc("AttributeError", "remote_conn"))
              ELSE IF remote_conn = "None" THEN Return("is_alive", "False", <<>>)
              ELSE IF write_channel_exc = NoExc
                   THEN Return("is_alive", IF link = "up" THEN "True" ELSE "False", <<>>)
              ELSE IF IsInstance(write_channel_exc.cls, "socket.error")
                      \/ write_channel_exc.cls = "EOFError"
                   THEN Return("is_alive", "False", <<>>)
              ELSE Raise("is_alive", write_channel_exc)
    /\ IF remote_conn = "conn"
       THEN log_writes(<<"NUL">>, write_channel_exc # NoExc)
       ELSE UNCHANGED <<slog, taken>>
    /\ ClearLocals
    /\ UNCHANGED <<backend, remote_conn, remote_conn_pre, transport, link, inbuf, pc>>
    /\ UNCHANGED session_log

\* SerialChannel.is_alive: the body is `pass`
SerialChannel_is_alive ==
    /\ backend = "serial" /\ pc = "idle"
    /\ ret' = Return("is_alive", "None", <<>>)
    /\ ClearLocals
    /\ fault' = NoFault
    /\ UNCHANGED <<backend, remote_conn, remote_conn_pre, transport, link, inbuf, pc>>
    /\ UNCHANGED logging

\* ------------------------------------------------- read_buffer, read_channel

\* bytes.decode("utf-8", "ignore"): undecodable bytes are dropped
decode(bytes) == SelectSeq(bytes, LAMBDA c : c # "\\xff")

\* paramiko Channel.recv_ready(): data is buffered
recv_ready(buf) == Len(buf) > 0

\* The ways one read_buffer() call can end on this backend: [exc, text, rest], rest
\* being what the transport still holds afterwards.
\*   TelnetChannel: assert isinstance(remote_conn, Telnet); read_eager() hands over
\*     some of what is readily available, EOFError when closed and nothing is left.
\*   SSHChannel: recv(MAX_BUFFER) if remote_conn is not None and recv_ready().
\*   SerialChannel: return "".
read_buffer_outcomes ==
    CASE backend = "telnet" ->
           IF remote_conn # "conn"
           THEN {[exc |-> Exc("AssertionError", "remote_conn"), text |-> <<>>, rest |-> inbuf]}
           ELSE IF inbuf # <<>>
           THEN {[exc |-> NoExc, text |-> decode(SubSeq(inbuf, 1, k)),
                  rest |-> SubSeq(inbuf, k + 1, Len(inbuf))] : k \in 1..Len(inbuf)}
           ELSE IF link \in {"eof", "torn"}
           THEN {[exc |-> Exc("EOFError", "telnet connection closed"), text |-> <<>>, rest |-> inbuf]}
           ELSE {[exc |-> NoExc, text |-> <<>>, rest |-> inbuf]}
      [] backend = "ssh" ->
           IF remote_conn = "deleted"
           THEN {[exc |-> Exc("AttributeError", "remote_conn"), text |-> <<>>, rest |-> inbuf]}
           ELSE IF remote_conn = "conn" /\ recv_ready(inbuf)
           THEN LET outbuf == SubSeq(inbuf, 1, Min(MAX_BUFFER, Len(inbuf)))
                IN IF Len(outbuf) = 0
                   THEN {[exc |-> Exc("EOFError", "Channel stream closed by remote device."),
                          text |-> <<>>, rest |-> inbuf]}
                   ELSE {[exc |-> NoExc, text |-> decode(outbuf),
                          rest |-> SubSeq(inbuf, Len(outbuf) + 1, Len(inbuf))]}
           ELSE {[exc |-> NoExc, text |-> <<>>, rest |-> inbuf]}
      [] OTHER -> {[exc |-> NoExc, text |-> <<>>, rest |-> inbuf]}

read_buffer ==
    /\ pc = "idle"
    /\ \E r \in read_buffer_outcomes :
         /\ inbuf' = r.rest
         /\ ret' = IF r.exc = NoExc THEN Return("read_buffer", "str", r.text)
                   ELSE Raise("read_buffer", r.exc)
         /\ IF r.exc = NoExc /\ backend \in {"telnet", "ssh"}
            THEN log_reads(r.text) ELSE no_read
    /\ ClearLocals
    /\ fault' = NoFault
    /\ UNCHANGED <<backend, remote_conn, remote_conn_pre, transport, link, pc>>
    /\ UNCHANGED session_log

\* TelnetChannel.read_channel: assert, read_very_eager() (everything available), ansi_strip
TelnetChannel_read_channel ==
    /\ backend = "telnet" /\ pc = "idle"
    /\ IF remote_conn # "conn"
       THEN ret' = Raise("read_channel", Exc("AssertionError", "remote_conn")) /\ inbuf' = inbuf
            /\ no_read
       ELSE IF inbuf = <<>> /\ link \in {"eof", "torn"}
       THEN ret' = Raise("read_channel", Exc("EOFError", "telnet connection closed"))
            /\ inbuf' = inbuf
            /\ no_read
       ELSE ret' = Return("read_channel", "str", strip_ansi_escape_codes(decode(inbuf)))
            /\ inbuf' = <<>>
            /\ log_reads(decode(inbuf))
    /\ ClearLocals
    /\ fault' = NoFault
    /\ UNCHANGED <<backend, remote_conn, remote_conn_pre, transport, link, pc>>
    /\ UNCHANGED session_log

\* SSHChannel.read_channel's loop: read_buffer() until one returns ""
RECURSIVE SSHChannel_drain(_)
SSHChannel_drain(buf) ==
    IF ~recv_ready(buf) THEN [text |-> <<>>, rest |-> buf]
    ELSE LET outbuf == SubSeq(buf, 1, Min(MAX_BUFFER, Len(buf)))
             after == SubSeq(buf, Len(outbuf) + 1, Len(buf))
         IN IF decode(outbuf) = <<>> THEN [text |-> <<>>, rest |-> after]
            ELSE LET more == SSHChannel_drain(after)
                 IN [text |-> decode(outbuf) \o more.text, rest |-> more.rest]

\* what one SSHChannel.read_channel() call does: [exc, raw, text, rest]; raw is what
\* its read_buffer() calls returned, text the ansi_strip'ped result
SSHChannel_read_channel_result ==
    IF remote_conn = "deleted"
    THEN [exc |-> Exc("AttributeError", "remote_conn"), raw |-> <<>>, text |-> <<>>,
          rest |-> inbuf]
    ELSE IF remote_conn = "None"
    THEN [exc |-> NoExc, raw |-> <<>>, text |-> <<>>, rest |-> inbuf]
    ELSE LET d == SSHChannel_drain(inbuf)
         IN [exc |-> NoExc, raw |-> d.text, text |-> strip_ansi_escape_codes(d.text),
             rest |-> d.rest]

SSHChannel_read_channel ==
    /\ backend = "ssh" /\ pc = "idle"
    /\ LET r == SSHChannel_read_channel_result
       IN /\ ret' = IF r.exc = NoExc THEN Return("read_channel", "str", r.text)
                     ELSE Raise("read_channel", r.exc)
          /\ inbuf' = r.rest
          /\ log_reads(r.raw)
    /\ ClearLocals
    /\ fault' = NoFault
    /\ UNCHANGED <<backend, remote_conn, remote_conn_pre, transport, link, pc>>
    /\ UNCHANGED session_log

\* SerialChannel.read_channel: "" when remote_conn is None, else read while in_waiting > 0
SerialChannel_read_channel ==
    /\ backend = "serial" /\ pc = "idle"
    /\ IF remote_conn = "None"
       THEN ret' = Return("read_channel", "str", <<>>) /\ inbuf' = inbuf
            /\ log_reads(<<>>)
       ELSE ret' = Return("read_channel", "str", strip_ansi_escape_codes(decode(inbuf)))
            /\ inbuf' = <<>>
            /\ log_reads(decode(inbuf))
    /\ ClearLocals
    /\ fault' = NoFault
    /\ UNCHANGED <<backend, remote_conn, remote_conn_pre, transport, link, pc>>
    /\ UNCHANGED session_log

\* ---------------------------------------------------- read_channel_expect

\* re.search(pattern, output) for a literal pattern
re_search(pat, out) ==
    \E i \in 0..(Len(out) - Len(pat)) : SubSeq(out, i + 1, i + Len(pat)) = pat

\* the text returned after the loop: output = strip_ansi_escape_codes(output)
expect_result(out) == strip_ansi_escape_codes(out)

\* PatternTimeout with the accumulated output left unstripped
PatternTimeout_unstripped(pat, out) ==
    [ cls |-> "NetmikoTimeoutException",
      msg |-> << <<"Timed-out reading channel, pattern not found in output:">>, pat,
                 <<"Data retrieved before timeout:">>, out >> ]

\* the NetmikoTimeoutException raised when the deadline has passed
PatternTimeout(pat, out) ==
    [ cls |-> "NetmikoTimeoutException",
      msg |-> << <<"Timed-out reading channel, pattern not found in output:">>, pat,
                 <<"Data retrieved before timeout:">>, strip_ansi_escape_codes(out) >> ]

\* Channel.read_channel_expect, entered through TelnetChannel/SSHChannel's super() call
read_channel_expect_start ==
    /\ backend \in {"telnet", "ssh"} /\ pc = "idle"
    /\ now' = 0
    /\ \E pat \in Patterns, timeout \in 0..MaxTimeout :
         /\ now' + timeout < MaxTime
         /\ pattern' = pat
         /\ read_timeout' = now' + timeout
    /\ output' = <<>>
    /\ delay_factor' = 0 /\ channel_data' = <<>> /\ drains' = <<>>
    /\ pc' = "poll"
    /\ ret' = NoRet
    /\ fault' = NoFault
    /\ UNCHANGED <<backend, remote_conn, remote_conn_pre, transport, link, inbuf>>
    /\ UNCHANGED logging

\* output += self.read_buffer()
read_channel_expect_poll ==
    /\ pc = "poll"
    /\ \E r \in read_buffer_outcomes :
         /\ inbuf' = r.rest
         /\ IF r.exc = NoExc
            THEN output' = output \o r.text /\ pc' = "check" /\ ret' = ret
                 /\ log_reads(r.text)
            ELSE output' = output /\ pc' = "idle" /\ ret' = Raise("read_channel_expect", r.exc)
                 /\ no_read
    /\ UNCHANGED <<backend, remote_conn, remote_conn_pre, transport, link, now,
                   fault, pattern, read_timeout>>
    /\ UNCHANGED <<timing, session_log>>

\* read_channel_expect_check that keeps polling after a match while data is pending
read_channel_expect_check_drains ==
    /\ pc = "check"
    /\ IF re_search(pattern, output) /\ inbuf = <<>>
       THEN pc' = "idle" /\ ret' = Return("read_channel_expect", "str", expect_result(output))
       ELSE IF re_search(pattern, output)
       THEN pc' = "poll" /\ ret' = ret
       ELSE IF now > read_timeout
       THEN pc' = "idle" /\ ret' = Raise("read_channel_expect", PatternTimeout(pattern, output))
       ELSE pc' = "sleep" /\ ret' = ret
    /\ UNCHANGED <<backend, remote_conn, remote_conn_pre, transport, link, inbuf, now,
                   fault, pattern, read_timeout, output>>
    /\ UNCHANGED <<timing, logging>>

\* read_channel_expect_check that drops the handle when it gives up
read_channel_expect_check_closes ==
    /\ pc = "check"
    /\ IF re_search(pattern, output)
       THEN /\ pc' = "idle"
            /\ ret' = Return("read_channel_expect", "str", expect_result(output))
            /\ remote_conn' = remote_conn
       ELSE IF now > read_timeout
       THEN /\ pc' = "idle"
            /\ ret' = Raise("read_channel_expect", PatternTimeout(pattern, output))
            /\ remote_conn' = "None"
       ELSE pc' = "sleep" /\ ret' = ret /\ remote_conn' = remote_conn
    /\ UNCHANGED <<backend, remote_conn_pre, transport, link, inbuf, now,
                   fault, pattern, read_timeout, output>>
    /\ UNCHANGED <<timing, logging>>

\* read_channel_expect_check that looks at the clock before it looks at the buffer
read_channel_expect_check_deadline_first ==
    /\ pc = "check"
    /\ IF now > read_timeout
       THEN pc' = "idle" /\ ret' = Raise("read_channel_expect", PatternTimeout(pattern, output))
       ELSE IF re_search(pattern, output)
       THEN pc' = "idle" /\ ret' = Return("read_channel_expect", "str", expect_result(output))
       ELSE pc' = "sleep" /\ ret' = ret
    /\ UNCHANGED <<backend, remote_conn, remote_conn_pre, transport, link, inbuf, now,
                   fault, pattern, read_timeout, output>>
    /\ UNCHANGED <<timing, logging>>

\* if re.search(...): break / elif time.time() > read_timeout: raise / else: sleep
read_channel_expect_check ==
    /\ pc = "check"
    /\ IF re_search(pattern, output)
       THEN pc' = "idle" /\ ret' = Return("read_channel_expect", "str", expect_result(output))
       ELSE IF now > read_timeout
       THEN pc' = "idle" /\ ret' = Raise("read_channel_expect", PatternTimeout(pattern, output))
       ELSE pc' = "sleep" /\ ret' = ret
    /\ UNCHANGED <<backend, remote_conn, remote_conn_pre, transport, link, inbuf, now,
                   fault, pattern, read_timeout, output>>
    /\ UNCHANGED <<timing, logging>>

\* time.sleep(loop_sleep_time)
read_channel_expect_sleep ==
    /\ pc = "sleep"
    /\ now < MaxTime
    /\ now' = now + 1
    /\ pc' = "poll"
    /\ UNCHANGED <<backend, remote_conn, remote_conn_pre, transport, link, inbuf, ret,
                   fault, pattern, read_timeout, output>>
    /\ UNCHANGED <<timing, logging>>

\* SerialChannel.read_channel_expect: the body is `pass`
SerialChannel_read_channel_expect ==
    /\ backend = "serial" /\ pc = "idle"
    /\ ret' = Return("read_channel_expect", "None", <<>>)
    /\ ClearLocals
    /\ fault' = NoFault
    /\ UNCHANGED <<backend, remote_conn, remote_conn_pre, transport, link, inbuf, pc>>
    /\ UNCHANGED logging

\* ---------------------------------------------------- read_channel_timing

\* loop_sleep_time = 0.01 s is the clock's tick; final_delay = 2 s is 200 of them
loop_sleep_time == 1
final_delay == 200

\* the delay_factor arguments tried: no sleeping at all, and the default
DelayFactors == {0, 1}

\* time.sleep(seconds): the clock is followed up to MaxTime only, which every
\* deadline lies below
sleep(ticks) == now' = Min(now + ticks, MaxTime)

\* SSHChannel.read_channel_timing begins: read_timeout = time.time() + timeout,
\* channel_data = ""
read_channel_timing_start ==
    /\ backend = "ssh" /\ pc = "idle"
    /\ now' = 0
    /\ \E df \in DelayFactors, timeout \in 0..MaxTimeout :
         /\ now' + timeout < MaxTime
         /\ delay_factor' = df
         /\ read_timeout' = now' + timeout
    /\ channel_data' = <<>>
    /\ drains' = <<>>
    /\ pattern' = <<>> /\ output' = <<>>
    /\ pc' = "t_sleep"
    /\ ret' = NoRet
    /\ fault' = NoFault
    /\ UNCHANGED <<backend, remote_conn, remote_conn_pre, transport, link, inbuf>>
    /\ UNCHANGED logging

\* time.sleep(loop_sleep_time * delay_factor)
read_channel_timing_sleep ==
    /\ pc = "t_sleep"
    /\ sleep(loop_sleep_time * delay_factor)
    /\ pc' = "t_read"
    /\ UNCHANGED <<backend, remote_conn, remote_conn_pre, transport, link, inbuf, ret,
                   fault, pattern, read_timeout, output>>
    /\ UNCHANGED <<timing, logging>>

\* new_data = self.read_channel(); if new_data: channel_data += new_data; else: settle
read_channel_timing_read ==
    /\ pc = "t_read"
    /\ LET r == SSHChannel_read_channel_result
       IN /\ inbuf' = r.rest
          /\ log_reads(r.raw)
          /\ IF r.exc # NoExc
             THEN /\ pc' = "idle" /\ ret' = Raise("read_channel_timing", r.exc)
                  /\ UNCHANGED <<channel_data, drains>>
             ELSE /\ drains' = Append(drains, r.text)
                  /\ channel_data' = channel_data \o r.text
                  /\ pc' = IF r.text # <<>> THEN "t_check" ELSE "t_settle_sleep"
                  /\ ret' = ret
    /\ UNCHANGED <<backend, remote_conn, remote_conn_pre, transport, link, now,
                   fault, pattern, read_timeout, output, delay_factor>>
    /\ UNCHANGED session_log

\* time.sleep(final_delay * delay_factor)
read_channel_timing_settle_sleep ==
    /\ pc = "t_settle_sleep"
    /\ sleep(final_delay * delay_factor)
    /\ pc' = "t_settle_read"
    /\ UNCHANGED <<backend, remote_conn, remote_conn_pre, transport, link, inbuf, ret,
                   fault, pattern, read_timeout, output>>
    /\ UNCHANGED <<timing, logging>>

\* read_channel_timing_settle_read that throws the settle read's data away
read_channel_timing_settle_read_drops ==
    /\ pc = "t_settle_read"
    /\ LET r == SSHChannel_read_channel_result
       IN /\ inbuf' = r.rest
          /\ log_reads(r.raw)
          /\ IF r.exc # NoExc
             THEN /\ pc' = "idle" /\ ret' = Raise("read_channel_timing", r.exc)
                  /\ UNCHANGED <<channel_data, drains>>
             ELSE /\ drains' = Append(drains, r.text)
                  /\ channel_data' = channel_data
                  /\ IF r.text = <<>>
                     THEN pc' = "idle"
                          /\ ret' = Return("read_channel_timing", "str", channel_data)
                     ELSE pc' = "t_check" /\ ret' = ret
    /\ UNCHANGED <<backend, remote_conn, remote_conn_pre, transport, link, now,
                   fault, pattern, read_timeout, output, delay_factor>>
    /\ UNCHANGED session_log

\* new_data = self.read_channel(); if not new_data: break; else: channel_data += new_data
read_channel_timing_settle_read ==
    /\ pc = "t_settle_read"
    /\ LET r == SSHChannel_read_channel_result
       IN /\ inbuf' = r.rest
          /\ log_reads(r.raw)
          /\ IF r.exc # NoExc
             THEN /\ pc' = "idle" /\ ret' = Raise("read_channel_timing", r.exc)
                  /\ UNCHANGED <<channel_data, drains>>
             ELSE /\ drains' = Append(drains, r.text)
                  /\ channel_data' = channel_data \o r.text
                  /\ IF r.text = <<>>
                     THEN pc' = "idle"
                          /\ ret' = Return("read_channel_timing", "str", channel_data)
                     ELSE pc' = "t_check" /\ ret' = ret
    /\ UNCHANGED <<backend, remote_conn, remote_conn_pre, transport, link, now,
                   fault, pattern, read_timeout, output, delay_factor>>
    /\ UNCHANGED session_log

\* read_channel_timing_check that goes round again whatever the clock says
read_channel_timing_check_ignores_deadline ==
    /\ pc = "t_check"
    /\ pc' = "t_sleep" /\ ret' = ret
    /\ UNCHANGED <<backend, remote_conn, remote_conn_pre, transport, link, inbuf, now,
                   fault, pattern, read_timeout, output>>
    /\ UNCHANGED <<timing, logging>>

\* if time.time() > read_timeout: break; after the loop: return channel_data
read_channel_timing_check ==
    /\ pc = "t_check"
    /\ IF now > read_timeout
       THEN pc' = "idle" /\ ret' = Return("read_channel_timing", "str", channel_data)
       ELSE pc' = "t_sleep" /\ ret' = ret
    /\ UNCHANGED <<backend, remote_conn, remote_conn_pre, transport, link, inbuf, now,
                   fault, pattern, read_timeout, output>>
    /\ UNCHANGED <<timing, logging>>

\* TelnetChannel.read_channel_timing, SerialChannel.read_channel_timing: the body is `pass`
read_channel_timing_pass ==
    /\ backend \in {"telnet", "serial"} /\ pc = "idle"
    /\ ret' = Return("read_channel_timing", "None", <<>>)
    /\ ClearLocals
    /\ fault' = NoFault
    /\ UNCHANGED <<backend, remote_conn, remote_conn_pre, transport, link, inbuf, pc>>
    /\ UNCHANGED logging

\* ------------------------------------------------------------ environment

\* the device sends one more character
DeviceSend ==
    /\ remote_conn = "conn" /\ link = "up"
    /\ Len(inbuf) + Len(output) + Len(channel_data) < MaxData
    /\ LogRoom(1)
    /\ \E c \in Chars : inbuf' = Append(inbuf, c)
    /\ UNCHANGED <<backend, remote_conn, remote_conn_pre, transport, link, now, pc,
                   ret, fault, pattern, read_timeout, output>>
    /\ UNCHANGED <<timing, logging>>

\* the remote end closes the stream cleanly
RemoteClose ==
    /\ backend \in {"telnet", "ssh"}
    /\ remote_conn = "conn" /\ link = "up"
    /\ link' = "eof"
    /\ UNCHANGED <<backend, remote_conn, remote_conn_pre, transport, inbuf, now, pc,
                   ret, fault, pattern, read_timeout, output>>
    /\ UNCHANGED <<timing, logging>>

\* the connection breaks: sends fail from now on
ConnectionBreak ==
    /\ remote_conn = "conn" /\ link \in {"up", "eof"}
    /\ link' = "broken"
    /\ UNCHANGED <<backend, remote_conn, remote_conn_pre, transport, inbuf, now, pc,
                   ret, fault, pattern, read_timeout, output>>
    /\ UNCHANGED <<timing, logging>>

\* the telnet object is torn down underneath the channel: its socket becomes None
TearDown ==
    /\ backend = "telnet"
    /\ remote_conn = "conn" /\ link # "torn"
    /\ link' = "torn"
    /\ UNCHANGED <<backend, remote_conn, remote_conn_pre, transport, inbuf, now, pc,
                   ret, fault, pattern, read_timeout, output>>
    /\ UNCHANGED <<timing, logging>>

\* the clock advances while a timed call is running
Tick ==
    /\ pc # "idle"
    /\ now < MaxTime
    /\ now' = now + 1
    /\ UNCHANGED <<backend, remote_conn, remote_conn_pre, transport, link, inbuf, pc,
                   ret, fault, pattern, read_timeout, output>>
    /\ UNCHANGED <<timing, logging>>

Next ==
    \/ TelnetChannel_establish_connection
    \/ SSHChannel_establish_connection
    \/ SerialChannel_establish_connection
    \/ SSHChannel_close
    \/ TelnetChannel_close
    \/ SerialChannel_close
    \/ write_channel
    \/ TelnetChannel_is_alive
    \/ SSHChannel_is_alive
    \/ SerialChannel_is_alive
    \/ read_buffer
    \/ TelnetChannel_read_channel
    \/ SSHChannel_read_channel
    \/ SerialChannel_read_channel
    \/ read_channel_expect_start
    \/ read_channel_expect_poll
    \/ read_channel_expect_check
    \/ read_channel_expect_sleep
    \/ SerialChannel_read_channel_expect
    \/ read_channel_timing_start
    \/ read_channel_timing_sleep
    \/ read_channel_timing_read
    \/ read_channel_timing_settle_sleep
    \/ read_channel_timing_settle_read
    \/ read_channel_timing_check
    \/ read_channel_timing_pass
    \/ DeviceSend
    \/ RemoteClose
    \/ ConnectionBreak
    \/ TearDown
    \/ Tick

Spec == Init /\ [][Next]_vars

\* Channels constructed with any session log, followed through the calls that read,
\* write and log; the clock moves by the calls' own sleeps.
InitLog ==
    /\ backend \in Backends
    /\ remote_conn = "None"
    /\ remote_conn_pre = "missing"
    /\ transport = "none"
    /\ link = "up"
    /\ inbuf = <<>>
    /\ now = 0
    /\ pc = "idle"
    /\ ret = NoRet
    /\ fault = NoFault
    /\ pattern = <<>>
    /\ read_timeout = 0
    /\ output = <<>>
    /\ delay_factor = 0
    /\ channel_data = <<>>
    /\ drains = <<>>
    /\ session_log \in SessionLogs
    /\ slog = <<>>
    /\ taken = <<>>

NextLog ==
    \/ TelnetChannel_establish_connection
    \/ SSHChannel_establish_connection
    \/ SerialChannel_establish_connection
    \/ write_channel
    \/ SSHChannel_is_alive
    \/ read_buffer
    \/ TelnetChannel_read_channel
    \/ SSHChannel_read_channel
    \/ SerialChannel_read_channel
    \/ read_channel_expect_start
    \/ read_channel_expect_poll
    \/ read_channel_expect_check
    \/ read_channel_expect_sleep
    \/ read_channel_timing_start
    \/ read_channel_timing_sleep
    \/ read_channel_timing_read
    \/ read_channel_timing_settle_sleep
    \/ read_channel_timing_settle_read
    \/ read_channel_timing_check
    \/ read_channel_timing_pass
    \/ DeviceSend

LogSpec == InitLog /\ [][NextLog]_vars

\* A running read_channel_timing call is straight-line code: each of its steps is
\* taken once it is reached.
FairSpec ==
    /\ Spec
    /\ WF_vars(read_channel_timing_sleep)
    /\ WF_vars(read_channel_timing_read)
    /\ WF_vars(read_channel_timing_settle_sleep)
    /\ WF_vars(read_channel_timing_settle_read)
    /\ WF_vars(read_channel_timing_check)

\* ------------------------------------------------------------------ claims

HandleAbsent == remote_conn # "conn"
HasEsc(s) == \E i \in 1..Len(s) : s[i] = "ESC"

\* C1: on every backend and from every lifecycle state, close() (whose transport
\* close does not itself raise) returns normally and leaves the handle absent.
C1_CloseNeverRaises ==
    (ret.op = "close" /\ fault.at # "close") => (ret.kind = "return" /\ HandleAbsent)

\* C2: on every backend, is_alive() on a channel still in its constructed state
\* (establish_connection never called) returns the boolean False.
C2_IsAliveFalseBeforeEstablish ==
    (ret.op = "is_alive" /\ remote_conn = "None" /\ remote_conn_pre = "missing"
        /\ transport = "none")
    => (ret.kind = "return" /\ ret.val = "False")

\* C3: once a poll leaves the accumulated buffer matching the pattern, the only
\* step read_channel_expect takes is to return: it reads nothing more from the
\* backend, whatever is pending there, and the text returned is the accumulated
\* buffer with the control sequences stripped.
C3_ExpectReturnsOnFirstMatch ==
    [][ (pc = "check" /\ re_search(pattern, output) /\ pc' # "check")
        => /\ pc' = "idle"
           /\ inbuf' = inbuf
           /\ ret' = Return("read_channel_expect", "str", strip_ansi_escape_codes(output))
           /\ ~HasEsc(ret'.text) ]_vars

\* C3 witness: the call returned on a match while the backend still held data,
\* and the accumulated buffer held a control sequence.
C3_Witness ==
    /\ ret.op = "read_channel_expect" /\ ret.kind = "return"
    /\ pattern # <<>>
    /\ inbuf # <<>>
    /\ HasEsc(output)
    /\ ret.text # <<>>

\* C4: when the deadline has passed at a check and the accumulated buffer does
\* not match, the call raises NetmikoTimeoutException carrying the pattern and
\* the stripped output; from an unmatched check it never returns normally.
C4_ExpectTimeoutRaises ==
    [][ (pc = "check" /\ ~re_search(pattern, output) /\ pc' # "check")
        => IF now > read_timeout
           THEN /\ pc' = "idle"
                /\ ret'.op = "read_channel_expect" /\ ret'.kind = "raise"
                /\ ret'.cls = "NetmikoTimeoutException"
                /\ Contains(ret'.msg, pattern)
                /\ Contains(ret'.msg, strip_ansi_escape_codes(output))
                /\ \A i \in 1..Len(ret'.msg) : ~HasEsc(ret'.msg[i])
           ELSE pc' = "sleep" /\ ret' = ret ]_vars

\* C4 witness: a pattern-timeout was raised with output, control sequence
\* included, collected before the deadline.
C4_Witness ==
    /\ ret.op = "read_channel_expect" /\ ret.kind = "raise"
    /\ ret.cls = "NetmikoTimeoutException"
    /\ now > read_timeout
    /\ HasEsc(output)
    /\ strip_ansi_escape_codes(output) # <<>>

\* C5: whenever establish_connection fails, the transport resource that call
\* opened has been closed when the error reaches the caller.
C5_FailedEstablishClosesResources ==
    (ret.op = "establish_connection" /\ ret.kind = "raise") => transport # "open"

\* C6: when connect() raises an authentication exception, establish_connection
\* raises NetmikoAuthenticationException naming device type, host and port and
\* including the library's message.
C6_AuthFailureTranslated ==
    (ret.op = "establish_connection" /\ backend = "ssh"
        /\ fault.at = "connect" /\ fault.cls = "AuthenticationException")
    => /\ ret.kind = "raise"
       /\ ret.cls = "NetmikoAuthenticationException"
       /\ Contains(ret.msg, <<device_type>>)
       /\ Contains(ret.msg, <<host>>)
       /\ Contains(ret.msg, <<port>>)
       /\ \A i \in 1..Len(fault.msg) : Contains(ret.msg, fault.msg[i])

\* C7: when connect() raises a socket-level error, establish_connection raises
\* NetmikoTimeoutException whose message contains host and port: the DNS-failure
\* message when the error says the name is unresolvable, else the TCP-failure one.
C7_SocketErrorTranslated ==
    (ret.op = "establish_connection" /\ backend = "ssh"
        /\ fault.at = "connect" /\ IsInstance(fault.cls, "socket.error"))
    => /\ ret.kind = "raise"
       /\ ret.cls = "NetmikoTimeoutException"
       /\ Contains(ret.msg, <<host>>)
       /\ Contains(ret.msg, <<port>>)
       /\ ret.msg = IF Contains(fault.msg, <<"Name or service not known">>)
                    THEN DnsFailureMsg ELSE TcpFailureMsg

\* C8: a transport exception saying 'No existing session' becomes the
\* NetmikoTimeoutException that recommends a larger connection timeout; any other
\* plain transport exception reaches the caller as the same exception, unchanged.
C8_TransportErrorHandling ==
    (ret.op = "establish_connection" /\ backend = "ssh"
        /\ fault.at = "connect" /\ fault.cls = "SSHException")
    => /\ ret.kind = "raise"
       /\ IF Contains(fault.msg, <<"No existing session">>)
          THEN ret.cls = "NetmikoTimeoutException" /\ ret.msg = NoSessionMsg
          ELSE ret.cls = fault.cls /\ ret.msg = fault.msg

\* C9: on TelnetChannel and SSHChannel, is_alive() always returns a boolean and
\* never raises, and returns False when the handle is absent or the transport's
\* send failed.
C9_IsAliveNeverRaises ==
    (ret.op = "is_alive" /\ backend \in {"telnet", "ssh"})
    => /\ ret.kind = "return"
       /\ ret.val \in {"True", "False"}
       /\ (HandleAbsent \/ fault.at = "send") => ret.val = "False"

\* C10: when the transport's own close raises inside close() on a connected
\* channel, close() returns normally and the handle is absent afterwards.
C10_CloseSwallowsTransportError ==
    (ret.op = "close" /\ fault.at = "close") => (ret.kind = "return" /\ HandleAbsent)


\* ---- read_channel_timing

RECURSIVE Flatten(_)
Flatten(seqs) == IF seqs = <<>> THEN <<>> ELSE Head(seqs) \o Flatten(Tail(seqs))

TimingReturned ==
    backend = "ssh" /\ ret.op = "read_channel_timing" /\ ret.kind = "return"

InTiming == pc \in {"t_sleep", "t_read", "t_settle_sleep", "t_settle_read", "t_check"}

\* C11: SSHChannel.read_channel_timing returns before its deadline only when a drain
\* of the normal loop came back empty and the settle drain right after it came back
\* empty too; a non-empty settle drain is kept and the loop goes on, so two empty
\* drains in a row are always the last two; the text returned is the drains of the
\* call joined in order.
C11_TimingReturnsOnQuiet ==
    TimingReturned
    => /\ ret.text = Flatten(drains)
       /\ now <= read_timeout
            => /\ Len(drains) >= 2
               /\ drains[Len(drains)] = <<>>
               /\ drains[Len(drains) - 1] = <<>>
       /\ \A i \in 1..(Len(drains) - 1) :
            (drains[i] = <<>> /\ drains[i + 1] = <<>>) => i + 1 = Len(drains)

\* a call that met an empty drain, a non-empty settle drain, went on and came back
\* before its deadline with the text
C11_Witness ==
    /\ TimingReturned
    /\ now <= read_timeout
    /\ Len(drains) >= 4
    /\ drains[1] = <<>> /\ drains[2] # <<>>
    /\ ret.text # <<>>

ReadBufferStep ==
    /\ pc = "idle" /\ ret'.op = "read_buffer"
    /\ link' = link /\ Len(inbuf') <= Len(inbuf)

\* C13: on a connected TelnetChannel or SSHChannel, read_buffer raises EOFError when
\* the remote end has closed the stream cleanly and no data remains, and returns ""
\* only while the stream is open with nothing available.
C13_ReadBufferSignalsClose ==
    [][(ReadBufferStep /\ backend \in {"telnet", "ssh"} /\ remote_conn = "conn"
          /\ link \in {"up", "eof"})
       => /\ (link = "eof" /\ inbuf = <<>>)
               => (ret'.kind = "raise" /\ ret'.cls = "EOFError")
          /\ (ret'.kind = "return" /\ ret'.text = <<>>)
               => (link = "up" /\ inbuf = <<>>)]_vars

\* ---- the pattern timeout is not fatal

PatternTimeoutRaised ==
    /\ ret.op = "read_channel_expect" /\ ret.kind = "raise"
    /\ ret.cls = "NetmikoTimeoutException"

\* C14: the step on which read_channel_expect raises its pattern timeout leaves the
\* handle, the client, the transport and the stream as they were, so the calls that
\* follow find the channel as connected as it was.
C14_PatternTimeoutNotFatal ==
    [][(pc = "check" /\ pc' = "idle" /\ ret'.kind = "raise")
       => UNCHANGED <<remote_conn, remote_conn_pre, transport, link, inbuf, session_log>>]_vars

\* a pattern timeout on a connected channel whose stream is up
C14_Witness ==
    /\ PatternTimeoutRaised
    /\ remote_conn = "conn" /\ transport = "open" /\ link = "up"

\* ---- the handle and the lifecycle

\* C15: the handle is present only if the latest establish_connection succeeded and
\* close() has not been called since: absent on a fresh channel, after close(), and
\* after an establish_connection that raised.
C15_HandlePresentOnlyWhenEstablished ==
    (pc = "idle"
       /\ \/ ret.op = "-"
          \/ ret.op = "close"
          \/ ret.op = "establish_connection" /\ ret.kind = "raise")
    => HandleAbsent

\* C16: with the handle absent, write_channel, read_buffer and read_channel do
\* nothing / return "", or fail with an error raised on purpose; none fails by
\* touching the absent handle or a handle attribute that is gone.
C16_AbsentHandleHandled ==
    (ret.op \in {"write_channel", "read_buffer", "read_channel"} /\ HandleAbsent)
    => \/ ret.kind = "return" /\ ret.text = <<>>
       \/ ret.kind = "raise" /\ ret.cls \notin {"AttributeError", "TypeError"}

\* ---- error messages of SSHChannel.establish_connection

DomainErrorRaised ==
    /\ backend = "ssh" /\ ret.op = "establish_connection" /\ ret.kind = "raise"
    /\ ret.cls \in {"NetmikoTimeoutException", "NetmikoAuthenticationException"}

C19_EstablishRepeatable ==
    (backend = "ssh" /\ ret.op = "establish_connection")
    => /\ (fault.at = "connect"
             /\ ConnectHandler([cls |-> fault.cls, msg |-> fault.msg]) # "unhandled")
            => /\ ret.kind = "raise"
               /\ [cls |-> ret.cls, msg |-> ret.msg]
                    = ConnectTranslation([cls |-> fault.cls, msg |-> fault.msg])
       /\ ret.kind = "return"
            => (remote_conn = "conn" /\ transport = "open" /\ link = "up")

\* ---- the session log

\* what the writes, and what the reads, have put into the session log
WritesLogged == SelectSeq(slog, LAMBDA c : c \in {"w", "NUL"})
ReadsLogged == SelectSeq(slog, LAMBDA c : c \in Chars)

\* C18 as stated: write_channel appends to the session log only when one is
\* attached and its write-recording flag is set.
C18_WritesLoggedOnlyWhenRecording ==
    WritesLogged # <<>> => (session_log.attached /\ session_log.record_writes)

\* C18 amended: write_channel appends to the session log only when one is attached
\* and its fin flag or its write-recording flag is set; with no session log nothing
\* is appended.
C18_WritesLoggedOnlyWhenFlagged ==
    /\ WritesLogged # <<>>
         => (session_log.attached /\ (session_log.fin \/ session_log.record_writes))
    /\ ~session_log.attached => slog = <<>>

\* a write logged on the strength of the fin flag alone
C18_Witness ==
    /\ ret.op = "write_channel"
    /\ WritesLogged # <<>>
    /\ session_log.fin /\ ~session_log.record_writes

InExpect == pc \in {"poll", "check", "sleep"}

\* C21: read_channel_expect polls before anything else and tests its buffer only
\* right after a poll; a buffer that matches after a poll makes the call return,
\* also when the deadline has passed (a timeout of 0 included); the pattern timeout
\* is raised only right after a poll, on a buffer that does not match.
C21_PatternBeforeDeadline ==
    [][/\ (pc = "idle" /\ InExpect') => pc' = "poll"
       /\ (pc' = "check" /\ pc # "check") => pc = "poll"
       /\ (InExpect /\ pc' = "idle") => pc \in {"poll", "check"}
       /\ (pc = "check" /\ pc' # pc /\ re_search(pattern, output))
            => /\ pc' = "idle"
               /\ ret'.op = "read_channel_expect" /\ ret'.kind = "return"
       /\ (InExpect /\ pc' = "idle" /\ ret'.cls = "NetmikoTimeoutException")
            => (pc = "check" /\ ~re_search(pattern, output) /\ now > read_timeout)]_vars

\* a call with timeout 0 that returned its match after the deadline had passed
C21_Witness ==
    /\ ret.op = "read_channel_expect" /\ ret.kind = "return"
    /\ pattern # <<>>
    /\ read_timeout = 0 /\ now > read_timeout

====
